---- MODULE Spec2Model ----
(***************************************************************************)
(* State-machine model of SearchWorker (src/main.py): the background scan  *)
(* of a directory of Excel workbooks for rows whose search column matches  *)
(* one of the search terms.                                                *)
(*                                                                         *)
(* Text is a sequence of one-character strings, a file name is a text, a   *)
(* path is a sequence of components (each a text).  The directory contents *)
(* (listing order, which entries are files, what opening each one does,    *)
(* its sheets and cells) are the environment; they are fixed by a small    *)
(* catalogue and the listing is drawn from it when a worker is started.    *)
(***************************************************************************)
EXTENDS Integers, Sequences, FiniteSets, TLC

\* ------------------------------------------------------------------ bounds
\* longest directory listing drawn in Init
MaxEntries == 2
\* longest list of search values drawn in Init
MaxTerms == 2

\* ------------------------------------------------------------- text helpers
Whitespace == {" ", "\t", "\n", "\r"}

CasePairs ==
    { <<"a", "A">>, <<"b", "B">>, <<"f", "F">>, <<"i", "I">>, <<"l", "L">>,
      <<"n", "N">>, <<"s", "S">>, <<"x", "X">>, <<"m", "M">>, <<"t", "T">>,
      <<"c", "C">> }

LowerChar(c) ==
    IF \E p \in CasePairs : p[2] = c
    THEN (CHOOSE p \in CasePairs : p[2] = c)[1]
    ELSE c

UpperChar(c) ==
    IF \E p \in CasePairs : p[1] = c
    THEN (CHOOSE p \in CasePairs : p[1] = c)[2]
    ELSE c

\* str.lower()
Lower(s) == [k \in 1..Len(s) |-> LowerChar(s[k])]

\* str.upper()
Upper(s) == [k \in 1..Len(s) |-> UpperChar(s[k])]

\* str.startswith(p)
StartsWith(s, p) == Len(p) <= Len(s) /\ SubSeq(s, 1, Len(p)) = p

\* str.endswith(p)
EndsWith(s, p) == Len(p) <= Len(s) /\ SubSeq(s, Len(s) - Len(p) + 1, Len(s)) = p

RECURSIVE LStripSet(_, _)
LStripSet(s, chars) ==
    IF s # <<>> /\ Head(s) \in chars THEN LStripSet(Tail(s), chars) ELSE s

RECURSIVE RStripSet(_, _)
RStripSet(s, chars) ==
    IF s # <<>> /\ s[Len(s)] \in chars
    THEN RStripSet(SubSeq(s, 1, Len(s) - 1), chars)
    ELSE s

\* str.strip(chars)
StripSet(s, chars) == RStripSet(LStripSet(s, chars), chars)

\* str.strip()
Strip(s) == StripSet(s, Whitespace)

\* str.replace(c, d) for one-character c; d is a text (possibly empty)
RECURSIVE ReplaceChar(_, _, _)
ReplaceChar(s, c, d) ==
    IF s = <<>> THEN <<>>
    ELSE (IF Head(s) = c THEN d ELSE <<Head(s)>>) \o ReplaceChar(Tail(s), c, d)

\* str.split(): the maximal runs of non-whitespace characters, in order
RECURSIVE SplitWs(_, _)
SplitWs(s, cur) ==
    IF s = <<>> THEN (IF cur = <<>> THEN <<>> ELSE <<cur>>)
    ELSE IF Head(s) \in Whitespace
         THEN (IF cur = <<>> THEN <<>> ELSE <<cur>>) \o SplitWs(Tail(s), <<>>)
         ELSE SplitWs(Tail(s), Append(cur, Head(s)))

\* a split at tabs and line breaks only, which leaves spaces inside the parts
RECURSIVE SplitOn(_, _, _)
SplitOn(s, cur, seps) ==
    IF s = <<>> THEN (IF cur = <<>> THEN <<>> ELSE <<cur>>)
    ELSE IF Head(s) \in seps
         THEN (IF cur = <<>> THEN <<>> ELSE <<cur>>) \o SplitOn(Tail(s), <<>>, seps)
         ELSE SplitOn(Tail(s), Append(cur, Head(s)), seps)

Split_keepSpaces(s) == SplitOn(s, <<>>, {"\t", "\n", "\r"})

Split(s) == SplitWs(s, <<>>)

\* ----------------------------------------------------------- path helpers
DotDot == <<".", ".">>
Dot == <<".">>

\* os.path.normpath on a rooted component sequence: "." dropped, ".." pops
RECURSIVE NormPathFrom(_, _)
NormPathFrom(done, rest) ==
    IF rest = <<>> THEN done
    ELSE IF Head(rest) = Dot THEN NormPathFrom(done, Tail(rest))
    ELSE IF Head(rest) = DotDot
         THEN NormPathFrom(IF done = <<>> THEN <<>>
                           ELSE SubSeq(done, 1, Len(done) - 1), Tail(rest))
    ELSE NormPathFrom(Append(done, Head(rest)), Tail(rest))

\* os.path.abspath: paths are taken from the root, then normalised
abspath(p) == NormPathFrom(<<>>, p)

\* os.path.dirname
dirname(p) == IF p = <<>> THEN <<>> ELSE SubSeq(p, 1, Len(p) - 1)

\* os.path.basename
basename(p) == IF p = <<>> THEN <<>> ELSE p[Len(p)]

\* os.path.join(directory, file)
join(d, f) == Append(d, f)

\* the path as the character string the os functions see ("/"-separated)
RECURSIVE PathText(_)
PathText(p) ==
    IF p = <<>> THEN <<>> ELSE <<"/">> \o Head(p) \o PathText(Tail(p))

\* ------------------------------------------------- the directory catalogue
\* entry names of the source directory
N_a == <<"a", ".", "x", "l", "s">>
N_lock == <<"~", "$", "a", ".", "x", "l", "s">>
N_b == <<"b", ".", "x", "l", "s", "x">>
N_p == <<"p", ".", "x", "l", "s", "m">>
N_k == <<"k", ".", "X", "L", "S">>
N_d == <<"d", ".", "x", "l", "s">>
N_g == <<"g", ".", "x", "l", "s", "b">>
N_txt == <<"n", ".", "t", "x", "t">>
N_f == <<"f", ".", "x", "l", "s">>
N_out == <<"r", ".", "x", "l", "s", "x">>

\* the entries os.listdir can return, in its order; a listing is a run of them
MasterListing == <<N_lock, N_a, N_b, N_p, N_k, N_g, N_d, N_txt, N_f>>

Range(f) == { f[k] : k \in DOMAIN f }

\* the runs of at most n consecutive elements of a sequence
Runs(m, n) ==
    { SubSeq(m, se[1], se[2]) :
        se \in { x \in (1..Len(m)) \X (0..Len(m)) :
                    x[2] - x[1] + 1 >= 0 /\ x[2] - x[1] + 1 <= n } }

Listings == Runs(MasterListing, MaxEntries)

\* search-value lists: runs of the master list
T_blank == <<" ">>
T_A1 == <<"A", "1">>
T_5 == <<"5">>
T_inf == <<"i", "n", "f">>

MasterTerms == <<T_blank, T_A1, T_5, T_inf>>

\* the lists of search values: the runs of the master list, and one value
\* listed twice
TermLists == Runs(MasterTerms, MaxTerms) \cup {<<T_A1, T_A1>>}

\* directories
DataDir == <<<<"d", "a", "t", "a">>>>
OutDir == <<<<"o", "u", "t">>>>
NoDir == <<<<"g", "o", "n", "e">>>>
\* tempfile.gettempdir()
TempDir == <<<<"t", "m", "p">>>>

\* an empty cell (pandas NaN) and the blank written for it
NaN == <<>>
Blank == <<>>

\* the sheets of each workbook: name, whether reading it raises, its rows
\* (header=None: every row is data; rows of a sheet have the same width)
Workbook(name) ==
    CASE name = N_a ->
           << [name |-> "S1", bad |-> FALSE,
               rows |-> << << <<"A", "1">>, <<"5", ".", "0">> >>,
                           << NaN, <<"A", "1", ";", "5">> >>,
                           << <<"a", "1", ",", "B", "2">>, NaN >> >>],
              [name |-> "S2", bad |-> FALSE,
               rows |-> << << <<"A", "1">> >> >>] >>
      [] name = N_b ->
           << [name |-> "S1", bad |-> FALSE, rows |-> <<>>],
              [name |-> "S3", bad |-> TRUE, rows |-> <<>>] >>
      [] OTHER -> <<>>

\* os.path.isfile for an entry of the source directory
IsFileEntry(name) == name # N_d

\* os.path.getsize, in bytes
max_size == 524288000
FileSize(name) == IF name = N_g THEN max_size + 1 ELSE 1

\* ------------------------------------------------------- search variants
Digits == {"0", "1", "2", "3", "4", "5", "6", "7", "8", "9"}

\* the texts float() accepts as a finite number, over this alphabet (no sign,
\* exponent or underscore): digits with at most one ".", at least one digit
IsDecimal(t) ==
    /\ t # <<>>
    /\ \A k \in 1..Len(t) : t[k] \in Digits \cup {"."}
    /\ Cardinality({k \in 1..Len(t) : t[k] = "."}) <= 1
    /\ \E k \in 1..Len(t) : t[k] \in Digits

\* float(value): "finite", "inf" (int() of it raises OverflowError), "nan"
\* (int() of it raises ValueError) or "error" (float() raises ValueError)
FloatKind(value) ==
    LET t == Strip(value) IN
    IF IsDecimal(t) THEN "finite"
    ELSE IF Lower(t) \in {<<"i", "n", "f">>, <<"i", "n", "f", "i", "n", "i", "t", "y">>} THEN "inf"
    ELSE IF Lower(t) = <<"n", "a", "n">> THEN "nan"
    ELSE "error"

DotAt(t) == IF \E k \in 1..Len(t) : t[k] = "."
            THEN CHOOSE k \in 1..Len(t) : t[k] = "."
            ELSE Len(t) + 1

\* str(int(float(value))) for a finite decimal: the integer part, truncated
IntText(value) ==
    LET t == Strip(value)
        ip == LStripSet(SubSeq(t, 1, DotAt(t) - 1), {"0"})
    IN IF ip = <<>> THEN <<"0">> ELSE ip

\* str(float(value)) for a finite decimal short enough to print positionally
FloatText(value) ==
    LET t == Strip(value)
        fp == RStripSet(SubSeq(t, DotAt(t) + 1, Len(t)), {"0"})
    IN IntText(value) \o <<".">> \o (IF fp = <<>> THEN <<"0">> ELSE fp)

\* num_value == int(num_value)
IsIntegral(value) ==
    LET t == Strip(value) IN RStripSet(SubSeq(t, DotAt(t) + 1, Len(t)), {"0"}) = <<>>

\* the variants of one search value (run, the body of the loop over search_values)
SearchVariants(value) ==
    LET str_value == Strip(value) IN
    << str_value, Lower(str_value), Upper(str_value),
       ReplaceChar(str_value, " ", <<>>) >>
    \o (IF FloatKind(value) = "finite"
        THEN <<IntText(value), FloatText(value)>>
             \o (IF IsIntegral(value) THEN <<IntText(value)>> ELSE <<>>)
        ELSE <<>>)

\* the loop over search_values without the test of line 206
RECURSIVE BuildSearchData_keepBlank(_)
BuildSearchData_keepBlank(values) ==
    IF values = <<>> THEN <<>>
    ELSE << <<Strip(Head(values)), SearchVariants(Head(values))>> >>
         \o BuildSearchData_keepBlank(Tail(values))

\* the loop over search_values: the (str_value, search_variants) pairs of the
\* values that are not empty after strip()
RECURSIVE BuildSearchData(_)
BuildSearchData(values) ==
    IF values = <<>> THEN <<>>
    ELSE (IF Strip(Head(values)) = <<>> THEN <<>>
          ELSE << <<Strip(Head(values)), SearchVariants(Head(values))>> >>)
         \o BuildSearchData(Tail(values))

\* whether the loop raises OverflowError (int(float("inf"))), which run's
\* except (ValueError, TypeError) does not catch
VariantsRaise(values) ==
    \E k \in 1..Len(values) :
        Strip(values[k]) # <<>> /\ FloatKind(values[k]) = "inf"

\* --------------------------------------------------------------- matching
PunctChars == {".", ",", ";", ":", "!", "?", "(", ")", "[", "]", "{", "}", "\"", "'"}

\* the cell with line breaks, commas, semicolons and tabs replaced by spaces
NormalizeCell(cell_str) ==
    [k \in 1..Len(cell_str) |->
        IF cell_str[k] \in {"\r", "\n", ",", ";", "\t"} THEN " " ELSE cell_str[k]]

is_exact_match(cell_str, search_variant) ==
    IF cell_str = <<>> \/ search_variant = <<>> THEN FALSE
    ELSE LET parts == Split(NormalizeCell(cell_str)) IN
         \E k \in 1..Len(parts) :
            LET part_clean == StripSet(parts[k], PunctChars) IN
            /\ part_clean # <<>>
            /\ \/ part_clean = search_variant
               \/ ReplaceChar(part_clean, " ", <<>>) = search_variant

\* the loops of lines 306-310 without the break: a value is reported once
\* for each of its variants that matches
RECURSIVE FoundInCell_perVariant(_, _)
FoundInCell_perVariant(cell_str, data) ==
    IF data = <<>> THEN <<>>
    ELSE [k \in 1..Cardinality({v \in 1..Len(Head(data)[2]) :
                    is_exact_match(cell_str, Head(data)[2][v])}) |-> Head(data)[1]]
         \o FoundInCell_perVariant(cell_str, Tail(data))

\* found_in_cell: the original terms, in search_data order, one of whose
\* variants matches the cell
RECURSIVE FoundInCell(_, _)
FoundInCell(cell_str, data) ==
    IF data = <<>> THEN <<>>
    ELSE (IF \E v \in 1..Len(Head(data)[2]) :
                is_exact_match(cell_str, Head(data)[2][v])
          THEN <<Head(data)[1]>> ELSE <<>>)
         \o FoundInCell(cell_str, Tail(data))

\* str(n) for one digit
DigitText(n) == <<"0", "1", "2", "3", "4", "5", "6", "7", "8", "9">>[n + 1]

\* ----------------------------------------------------------- notifications
\* one emitted signal: progress(value), message(kind, text) or
\* finished(ok, kind, counts, text)
Notification(sig, ok, kind, value, counts, text) ==
    [sig |-> sig, ok |-> ok, kind |-> kind, value |-> value,
     counts |-> counts, text |-> text]

Message(kind, text) == Notification("message", TRUE, kind, 0, <<0, 0>>, text)
Progress(value) == Notification("progress", TRUE, "percent", value, <<0, 0>>, <<>>)
Finished(ok, kind, counts, text) ==
    Notification("finished", ok, kind, 0, counts, text)

\* --------------------------------------------------------------- discovery
ExcelExts == { <<".", "x", "l", "s", "x">>, <<".", "x", "l", "s">>, <<".", "x", "l", "s", "m">>, <<".", "x", "l", "s", "b">> }
LockMarker == <<"~", "$">>

HasExcelExt(name) == \E e \in ExcelExts : EndsWith(Lower(name), e)

\* the loop of get_excel_files_safely over os.listdir(directory): the paths
\* kept and the messages emitted, each in listing order (an entry adds to one
\* of the two at most)
ScanListing(directory, entries) ==
    LET kept == SelectSeq(entries, LAMBDA file :
                    /\ ~StartsWith(file, LockMarker)
                    /\ IsFileEntry(file)
                    /\ HasExcelExt(file))
        skipped == SelectSeq(entries, LAMBDA file : StartsWith(file, LockMarker))
    IN [files |-> [k \in 1..Len(kept) |-> join(directory, kept[k])],
        messages |-> [k \in 1..Len(skipped) |->
                        Message("skipped_temp", skipped[k])]]

\* the source directory exists and is a directory; every other directory of
\* the model is missing
DirExists(directory) == abspath(directory) = DataDir

get_excel_files_safely(directory, entries) ==
    IF ~DirExists(directory)
    THEN [files |-> <<>>, messages |-> <<Message("no_directory", PathText(directory))>>]
    ELSE ScanListing(directory, entries)

\* -------------------------------------------------------------- destination
N_old == <<"o", "l", "d", ".", "x", "l", "s", "x">>
Out_inSrc == join(DataDir, N_out)
Out_isSrc == OutDir \o <<DotDot>> \o join(DataDir, N_a)
Out_old == join(OutDir, N_old)
OutputFiles == {Out_inSrc, Out_isSrc, Out_old}

\* os.path.exists for an output path before the scan: a source entry, or the
\* report of an earlier run
OutputExists(output_abs, entries) ==
    \/ output_abs = abspath(Out_old)
    \/ \E k \in 1..Len(entries) : output_abs = abspath(join(DataDir, entries[k]))

\* the destination check without the comparison of the parent directory
validate_output_path_noParentCheck(output_file, search_directory, entries) ==
    LET output_abs == abspath(output_file)
        found == get_excel_files_safely(search_directory, entries)
    IN IF OutputExists(output_abs, entries)
       THEN [raised |-> \E k \in 1..Len(found.files) :
                           abspath(found.files[k]) = output_abs,
             messages |-> found.messages]
       ELSE [raised |-> FALSE, messages |-> <<>>]

\* validate_output_path: whether it raises ValueError, and the messages its
\* directory listing emits
validate_output_path(output_file, search_directory, entries) ==
    LET output_abs == abspath(output_file)
        search_abs == abspath(search_directory)
        found == get_excel_files_safely(search_directory, entries)
    IN IF dirname(output_abs) = search_abs
       THEN [raised |-> TRUE, messages |-> <<>>]
       ELSE IF OutputExists(output_abs, entries)
            THEN [raised |-> \E k \in 1..Len(found.files) :
                                abspath(found.files[k]) = output_abs,
                  messages |-> found.messages]
            ELSE [raised |-> FALSE, messages |-> <<>>]

\* ------------------------------------------------------------ safe opening
TempPrefix == <<"e", "x", "c", "e", "l", "_", "s", "e", "a", "r", "c", "h", "_", "t", "e", "m", "p", "_">>
\* os.urandom(8).hex(): the n-th draw of the run's random stream, which is
\* one of two streams; the draws of a stream do not repeat
Entropies == {0, 1}
Nonce(entropy, n) == <<DigitText(entropy), DigitText(n)>>
TempName(nonce) == TempPrefix \o nonce \o <<".", "x", "l", "s", "x">>
None == <<>>

\* what the environment does to an open of each entry: p.xlsm is held by
\* another process (PermissionError, from the copy or from the parser,
\* according to stage), k.XLS is not a workbook (the parser raises), and the
\* scratch root has no room for the copy of f.xls (shutil.copy2 raises an
\* OSError that is not a PermissionError, after creating the scratch file)
CopyRaises(name, stage) == name = N_p /\ stage = "copy"
CopyFails(name) == name = N_f
ParseRaises(name, stage) ==
    IF name = N_k THEN "Exception"
    ELSE IF name = N_p /\ stage = "parse" THEN "PermissionError"
    ELSE "none"

\* the parser applied to the source file itself, without a scratch copy
read_excel_safely_inPlace(file_path, entries, temps, nonce, stage, unlink_ok) ==
    [raised |-> "none", detail |-> <<>>, xls |-> file_path, temp_path |-> None,
     named |-> FALSE, copied |-> FALSE, parsed |-> TRUE, temps |-> temps]

\* str(e) of the exceptions that reach the handler of lines 87-93: the texts
\* of lines 57, 60, 65, the parser's text for a file that is not a workbook,
\* and the text of an OSError of the copy, which names both of its paths
TempFileMsg(filename) == <<"temp_file">> \o filename
NotExistsMsg(filename) == <<"not_exists">> \o filename
TooLargeMsg(filename) == <<"too_large">> \o filename
NotWorkbookMsg == <<"not_a_workbook">>
CopyErrorMsg(file_path, temp_path) ==
    <<"no_space">> \o PathText(file_path) \o <<"->">> \o PathText(temp_path)

\* read_excel_safely: raised is "none", "PermissionError" or "Exception";
\* detail is the text of the exception wrapped at line 93; temps is the set
\* of scratch files after the call, copied and parsed say whether the copy
\* was made and the parser applied (to temp_path), named whether the scratch
\* name was drawn
read_excel_safely(file_path, entries, temps, nonce, stage, unlink_ok) ==
    LET filename == basename(file_path)
        temp_path == join(TempDir, TempName(nonce))
        fail(kind, detail, copied, parsed) ==
            [raised |-> kind, detail |-> detail, xls |-> None,
             temp_path |-> None, named |-> TRUE,
             copied |-> copied, parsed |-> parsed,
             temps |-> IF copied \/ temp_path \in temps
                       THEN (IF unlink_ok THEN temps \ {temp_path}
                             ELSE temps \cup {temp_path})
                       ELSE temps]
        early(detail) ==
            [raised |-> "Exception", detail |-> detail, xls |-> None,
             temp_path |-> None, named |-> FALSE, copied |-> FALSE,
             parsed |-> FALSE, temps |-> temps]
    IN IF StartsWith(filename, LockMarker) THEN early(TempFileMsg(filename))
       ELSE IF ~(\E k \in 1..Len(entries) : entries[k] = filename)
            THEN early(NotExistsMsg(filename))
       ELSE IF FileSize(filename) > max_size THEN early(TooLargeMsg(filename))
       ELSE IF CopyRaises(filename, stage)
            THEN fail("PermissionError", <<>>, FALSE, FALSE)
       ELSE IF CopyFails(filename)
            THEN fail("Exception", CopyErrorMsg(file_path, temp_path), TRUE, FALSE)
       ELSE IF ParseRaises(filename, stage) = "PermissionError"
            THEN fail("PermissionError", <<>>, TRUE, TRUE)
       ELSE IF ParseRaises(filename, stage) = "Exception"
            THEN fail("Exception", NotWorkbookMsg, TRUE, TRUE)
       ELSE [raised |-> "none", detail |-> <<>>, xls |-> temp_path,
             temp_path |-> temp_path, named |-> TRUE, copied |-> TRUE,
             parsed |-> TRUE, temps |-> temps \cup {temp_path}]

\* ------------------------------------------------------------- scan helpers
\* sheets_to_process, from sheets_mode and the workbook's sheet names
ResolveSheets(mode, sheet_names) ==
    IF mode.mode = "first"
    THEN (IF sheet_names # <<>> THEN <<sheet_names[1]>> ELSE <<>>)
    ELSE IF mode.mode = "all" THEN sheet_names
    ELSE SelectSeq(mode.names,
                   LAMBDA sh : \E k \in 1..Len(sheet_names) : sheet_names[k] = sh)

SheetNames(name) == [k \in 1..Len(Workbook(name)) |-> Workbook(name)[k].name]

SheetNamed(name, sheet_name) ==
    LET wb == Workbook(name) IN
    wb[CHOOSE k \in 1..Len(wb) : wb[k].name = sheet_name]

\* len(df.columns)
Width(rows) == IF rows = <<>> THEN 0 ELSE Len(rows[1])

\* no sheet counts as empty
IsEmptyFrame_never(rows) == FALSE

\* run, line 278: df.empty
IsEmptyFrame(rows) == rows = <<>> \/ Width(rows) = 0

\* the blank placeholders of an error row, one per selected column
\* an error row without the blank fields of the selected columns
Blanks_none(columns) == <<>>

Blanks(columns) == [k \in 1..Len(columns) |-> Blank]

\* the locator of a row found in a sheet: "<file> (sheet: <name>)"
SheetLocator(file_path, sheet_name) ==
    basename(file_path) \o <<" (", sheet_name, ")">>

\* an error row: the message, one blank per selected column, the locator
ErrorRow(error_msg, columns, locator) ==
    <<error_msg>> \o Blanks(columns) \o <<locator>>

\* the error messages of run (kind, then the names the text carries)
NoSheetsMsg(file_path) == <<"no_sheets">> \o basename(file_path)
NoColumnMsg(file_path, sheet_name) ==
    <<"no_column">> \o basename(file_path) \o <<sheet_name>>
SheetErrorMsg(file_path, sheet_name) ==
    <<"sheet_error">> \o basename(file_path) \o <<sheet_name>>
FileLockedMsg(file_path) == <<"file_locked">> \o basename(file_path)
FileErrorMsg(file_path, detail) ==
    <<"file_error">> \o PathText(file_path) \o detail

\* the values of the selected columns of one row (blank when the column is
\* beyond the sheet width or the cell is empty)
RowValues(rows, idx, columns) ==
    [k \in 1..Len(columns) |->
        IF columns[k] - 1 < Width(rows)
        THEN (IF rows[idx + 1][columns[k]] # NaN
              THEN rows[idx + 1][columns[k]] ELSE Blank)
        ELSE Blank]

\* the result rows of one row of the sheet: one per term found in the cell
ResultRows(found, rows, idx, columns, file_path, sheet_name) ==
    [k \in 1..Len(found) |->
        <<found[k]>> \o RowValues(rows, idx, columns)
            \o <<SheetLocator(file_path, sheet_name)>>]

\* the header row of the report
Headers(columns) ==
    << <<"term">> >> \o [k \in 1..Len(columns) |-> <<"column ", DigitText(columns[k])>>]
        \o << <<"source">> >>

\* "\n".join(locked_files)
RECURSIVE JoinLines(_)
JoinLines(names) ==
    IF names = <<>> THEN <<>>
    ELSE Head(names) \o (IF Len(names) > 1 THEN <<"\n">> ELSE <<>>)
         \o JoinLines(Tail(names))

\* int((i / total_files) * 100), exact for the small totals of the model
Percent(i, total_files) == (i * 100) \div total_files

\* a test of the scratch root that no path passes
InTempDirByPrefix_never(temp_path) == FALSE

\* the test of safe_delete_temp_file: a character-wise common prefix
InTempDirByPrefix(temp_path) ==
    StartsWith(PathText(abspath(temp_path)), PathText(abspath(TempDir)))

\* an I/O operation on the file system, logged in order
Io(op, path) == [op |-> op, path |-> path]

\* ------------------------------------------------------------------- state
VARIABLES
    \* the request (SearchWorker.__init__) and the cancellation flag
    search_values, directory, column_index, selected_columns, output_file,
    sheets_mode, is_running,
    \* the environment: the directory listing, the scratch files that exist,
    \* the reports written, the random stream and the draws made from it
    listing, fs_temp, fs_output, entropy, draws,
    \* the locals of run and its position
    pc, temp_files_to_cleanup, excel_files, search_data, all_results,
    error_results, locked_files, i, xls, sheets_to_process, sheet_pos, df,
    idx, cleanup_pos,
    \* the parser handles that are open
    open_handles,
    \* history: the notifications emitted, the I/O done, and what had been
    \* accumulated when the worker first saw the flag cleared
    emitted, io_log, cancel_seen,
    \* history: what an earlier run of the same request produced
    earlier,
    \* the window (ExcelSearchApp): whether the search button is enabled, the
    \* finished notifications its handler has received, the workers it has
    \* created, and whether it refused the last start asked for
    window

request == <<search_values, directory, column_index, selected_columns,
             output_file, sheets_mode>>
scan == <<excel_files, search_data, all_results, error_results, locked_files,
          i, xls, sheets_to_process, sheet_pos, df, idx>>
vars == <<request, is_running, listing, fs_temp, fs_output, entropy, draws, pc,
          temp_files_to_cleanup, scan, cleanup_pos, open_handles, emitted,
          io_log, cancel_seen, earlier, window>>

ColumnIndexes == {1, 2}
SelectedColumns == { <<1, 3>> }
SheetModes ==
    { [mode |-> "first", names |-> <<>>], [mode |-> "all", names |-> <<>>],
      [mode |-> "list", names |-> <<"S2", "S9">>] }
Directories == {DataDir, NoDir}

\* the window as constructed: the button enabled, no worker yet
NoWindow == [button |-> TRUE, delivered |-> 0, created |-> 0, refused |-> FALSE]

\* no earlier run is remembered
NoRun == [ran |-> FALSE, results |-> <<>>, errors |-> <<>>, trace |-> <<>>]

NotSeen == [seen |-> FALSE, results |-> <<>>, errors |-> <<>>, started |-> 0]

\* the application before a search is started: no worker yet
Init ==
    /\ search_values = <<>>
    /\ directory = <<>>
    /\ column_index = 1
    /\ selected_columns = <<>>
    /\ output_file = <<>>
    /\ sheets_mode = [mode |-> "first", names |-> <<>>]
    /\ is_running = FALSE
    /\ listing = <<>>
    /\ fs_temp = {}
    /\ fs_output = <<>>
    /\ entropy = 0
    /\ draws = 0
    /\ pc = "idle"
    /\ temp_files_to_cleanup = <<>>
    /\ excel_files = <<>>
    /\ search_data = <<>>
    /\ all_results = <<>>
    /\ error_results = <<>>
    /\ locked_files = <<>>
    /\ i = 0
    /\ xls = None
    /\ sheets_to_process = <<>>
    /\ sheet_pos = 1
    /\ df = <<>>
    /\ idx = 0
    /\ cleanup_pos = 1
    /\ open_handles = {}
    /\ emitted = <<>>
    /\ io_log = <<>>
    /\ cancel_seen = NotSeen
    /\ earlier = NoRun
    /\ window = NoWindow

\* ----------------------------------------------------------------- actions
\* __init__, lines 27-46, and the start of the thread: a worker is made for
\* a request and started.  The constructor takes any request (the window's
\* start_search passes trimmed, non-empty values only; run does not rely on
\* it).  The directory contents and the random stream of this scan are fixed
\* here
NewWorker ==
    /\ pc = "idle"
    /\ search_values' \in TermLists
    /\ directory' \in Directories
    /\ column_index' \in ColumnIndexes
    /\ selected_columns' \in SelectedColumns
    /\ output_file' \in OutputFiles
    /\ sheets_mode' \in SheetModes
    /\ is_running' = TRUE
    /\ listing' \in Listings
    /\ entropy' \in Entropies
    /\ pc' = "validate"
    /\ UNCHANGED <<earlier, window, draws, fs_temp, fs_output, temp_files_to_cleanup, scan,
                   cleanup_pos, open_handles, emitted, io_log, cancel_seen>>

\* the I/O of one get_excel_files_safely call
ListingIo(dir) == IF DirExists(dir) THEN <<Io("listdir", dir)>> ELSE <<>>

\* run, lines 183-190: the destination check; a failure emits finished and
\* returns (through the finally block)
ValidateStep ==
    /\ pc = "validate"
    /\ \E v \in {validate_output_path(output_file, directory, listing)},
          listed \in {dirname(abspath(output_file)) # abspath(directory)
                      /\ OutputExists(abspath(output_file), listing)} :
          /\ io_log' = io_log \o (IF listed THEN ListingIo(directory) ELSE <<>>)
          /\ emitted' = emitted \o v.messages
                \o (IF v.raised
                    THEN <<Finished(FALSE, "path_error", <<0, 0>>, <<>>)>>
                    ELSE <<>>)
          /\ pc' = IF v.raised THEN "cleanup" ELSE "discover"
    /\ UNCHANGED <<request, earlier, window, is_running, listing, entropy, draws, fs_temp,
                   fs_output,
                   temp_files_to_cleanup, scan, cleanup_pos, open_handles,
                   cancel_seen>>

\* discovery whose result is not tested
AfterDiscovery_noTest(files) == "terms"

\* run, lines 196-198: an empty discovery returns (through the finally block)
AfterDiscovery(files) == IF files = <<>> THEN "cleanup" ELSE "terms"

\* run, lines 192-200: discovery; no file ends the scan
DiscoverStep ==
    /\ pc = "discover"
    /\ \E found \in {get_excel_files_safely(directory, listing)} :
       /\ io_log' = io_log \o ListingIo(directory)
       /\ excel_files' = found.files
       /\ emitted' = emitted \o <<Message("searching", <<>>)>> \o found.messages
             \o (IF found.files = <<>>
                 THEN <<Finished(FALSE, "no_files", <<0, 0>>, <<>>)>>
                 ELSE <<Message("found_files", <<DigitText(Len(found.files))>>)>>)
       /\ pc' = AfterDiscovery(found.files)
    /\ UNCHANGED <<request, earlier, window, is_running, listing, entropy, draws, fs_temp,
                   fs_output,
                   temp_files_to_cleanup, search_data, all_results, error_results,
                   locked_files, i, xls, sheets_to_process, sheet_pos, df, idx,
                   cleanup_pos, open_handles, cancel_seen>>

\* the outer handler swallowing the exception without a notification
CriticalSignals_silent == <<>>

\* run, lines 416-419: the outer handler reports an unexpected exception
CriticalSignals == <<Finished(FALSE, "critical", <<0, 0>>, <<>>)>>

\* run, lines 202-235: the variants of every search value; an OverflowError
\* reaches the outer handler (lines 416-419), no valid value ends the scan
TermsStep ==
    /\ pc = "terms"
    /\ IF VariantsRaise(search_values)
       THEN /\ emitted' = emitted \o CriticalSignals
            /\ pc' = "cleanup"
            /\ UNCHANGED search_data
       ELSE /\ search_data' = BuildSearchData(search_values)
            /\ IF search_data' = <<>>
               THEN /\ emitted' = Append(emitted,
                                         Finished(FALSE, "no_terms", <<0, 0>>, <<>>))
                    /\ pc' = "cleanup"
               ELSE /\ emitted' = emitted
                    /\ pc' = "file"
    /\ UNCHANGED <<request, earlier, window, is_running, listing, entropy, draws, fs_temp,
                   fs_output,
                   temp_files_to_cleanup, excel_files, all_results, error_results,
                   locked_files, i, xls, sheets_to_process, sheet_pos, df, idx,
                   cleanup_pos, open_handles, io_log, cancel_seen>>

\* the first time the worker reads is_running as False
SeeCancel(started) ==
    IF cancel_seen.seen THEN cancel_seen
    ELSE [seen |-> TRUE, results |-> all_results, errors |-> error_results,
          started |-> started]

\* run, lines 237-240 and the end of the loop over excel_files
FileLoopExit ==
    /\ pc = "file"
    /\ \/ /\ i >= Len(excel_files)
          /\ UNCHANGED <<emitted, cancel_seen>>
       \/ /\ i < Len(excel_files)
          /\ ~is_running
          /\ emitted' = Append(emitted, Message("cancelled", <<>>))
          /\ cancel_seen' = SeeCancel(i)
    /\ pc' = "write"
    /\ UNCHANGED <<request, earlier, window, is_running, listing, entropy, draws, fs_temp,
                   fs_output,
                   temp_files_to_cleanup, scan, cleanup_pos, open_handles, io_log>>

\* the I/O of one read_excel_safely call
OpenIo(file_path, r, temp) ==
    (IF r.copied THEN <<Io("copy", file_path)>> ELSE <<>>)
    \o (IF r.parsed THEN <<Io("parse", temp)>> ELSE <<>>)
    \o (IF r.raised # "none" /\ temp \in fs_temp \cup (IF r.copied THEN {temp} ELSE {})
        THEN <<Io(IF temp \in r.temps THEN "unlink_failed" ELSE "unlink", temp)>>
        ELSE <<>>)

\* a finally block that leaves the workbook open
Closed_never(handles, handle) == handles

\* xls.close(), lines 357-362 and 424-428: the handle is open no longer
Closed(handles, handle) == handles \ {handle}

\* the handler of PermissionError not recording the file
LockedAfter_forgotten(locked, file_path) == locked

\* run, line 338: the handler of PermissionError records the file's name
LockedAfter(locked, file_path) == Append(locked, basename(file_path))

\* a handler of a file's failure that leaves the loop over the files
AfterFileError_abort == "write"

\* run, lines 337-356: the handlers of a file's failure fall through to the
\* next iteration of the loop over the files
AfterFileError == "file"

\* run, lines 242-272 and 337-362: one file is announced, opened through its
\* scratch copy and its sheets resolved; every failure leaves one error row
\* and the finally block closes the workbook
FileStep ==
    /\ pc = "file"
    /\ i < Len(excel_files)
    /\ is_running
    /\ \E stage \in {"copy", "parse"}, unlink_ok \in BOOLEAN :
       \E file_path \in {excel_files[i + 1]}, nonce \in {Nonce(entropy, draws)} :
       \E r \in {read_excel_safely(file_path, listing, fs_temp, nonce, stage,
                                   unlink_ok)},
          sheets \in {ResolveSheets(sheets_mode, SheetNames(basename(file_path)))},
          announce \in {<< Message("processing", basename(file_path)),
                          Progress(Percent(i, Len(excel_files))) >>} :
        /\ fs_temp' = r.temps
        /\ draws' = IF r.named THEN draws + 1 ELSE draws
        /\ io_log' = io_log \o <<Io("open", file_path)>>
              \o OpenIo(file_path, r, join(TempDir, TempName(nonce)))
        /\ \/ /\ r.raised = "none"
              /\ temp_files_to_cleanup' = Append(temp_files_to_cleanup, r.temp_path)
              /\ xls' = r.xls
              /\ UNCHANGED locked_files
              /\ \/ /\ sheets = <<>>
                    /\ emitted' = emitted \o announce
                          \o <<Message("error", NoSheetsMsg(file_path))>>
                    /\ error_results' = Append(error_results,
                          ErrorRow(NoSheetsMsg(file_path), selected_columns,
                                   basename(file_path)))
                    /\ open_handles' = Closed(open_handles \cup {r.xls}, r.xls)
                    /\ i' = i + 1
                    /\ pc' = "file"
                    /\ UNCHANGED <<sheets_to_process, sheet_pos>>
                 \/ /\ sheets # <<>>
                    /\ emitted' = emitted \o announce
                    /\ open_handles' = open_handles \cup {r.xls}
                    /\ sheets_to_process' = sheets
                    /\ sheet_pos' = 1
                    /\ pc' = "sheet"
                    /\ UNCHANGED <<error_results, i>>
           \/ /\ r.raised = "PermissionError"
              /\ locked_files' = LockedAfter(locked_files, file_path)
              /\ emitted' = emitted \o announce
                    \o <<Message("error", FileLockedMsg(file_path))>>
              /\ error_results' = Append(error_results,
                    ErrorRow(FileLockedMsg(file_path), selected_columns,
                             basename(file_path)))
              /\ xls' = None
              /\ i' = i + 1
              /\ pc' = AfterFileError
              /\ UNCHANGED <<temp_files_to_cleanup, open_handles,
                             sheets_to_process, sheet_pos>>
           \/ /\ r.raised = "Exception"
              /\ emitted' = emitted \o announce
                    \o <<Message("error", FileErrorMsg(file_path, r.detail))>>
              /\ error_results' = Append(error_results,
                    ErrorRow(FileErrorMsg(file_path, r.detail), selected_columns,
                             basename(file_path)))
              /\ xls' = None
              /\ i' = i + 1
              /\ pc' = AfterFileError
              /\ UNCHANGED <<temp_files_to_cleanup, open_handles, locked_files,
                             sheets_to_process, sheet_pos>>
    /\ UNCHANGED <<request, earlier, window, is_running, listing, entropy, fs_output, excel_files,
                   search_data, all_results, df, idx, cleanup_pos, cancel_seen>>

\* run, lines 274-292 and 326-335: the next sheet of the open workbook is
\* read; after the last one the finally block (357-362) closes the workbook
SheetStep ==
    /\ pc = "sheet"
    /\ LET file_path == excel_files[i + 1] IN
       \/ /\ sheet_pos > Len(sheets_to_process)
          /\ open_handles' = Closed(open_handles, xls)
          /\ i' = i + 1
          /\ pc' = "file"
          /\ UNCHANGED <<sheet_pos, df, idx, error_results, emitted, io_log>>
       \/ /\ sheet_pos <= Len(sheets_to_process)
          /\ \E sheet_name \in {sheets_to_process[sheet_pos]} :
             \E sh \in {SheetNamed(basename(file_path), sheet_name)} :
             /\ io_log' = Append(io_log, Io("read_sheet", file_path))
             /\ \/ /\ sh.bad
                   /\ emitted' = Append(emitted,
                         Message("error", SheetErrorMsg(file_path, sheet_name)))
                   /\ error_results' = Append(error_results,
                         ErrorRow(SheetErrorMsg(file_path, sheet_name),
                                  selected_columns,
                                  SheetLocator(file_path, sheet_name)))
                   /\ sheet_pos' = sheet_pos + 1
                   /\ UNCHANGED <<df, idx, pc>>
                \/ /\ ~sh.bad
                   /\ IsEmptyFrame(sh.rows)
                   /\ sheet_pos' = sheet_pos + 1
                   /\ UNCHANGED <<df, idx, pc, emitted, error_results>>
                \/ /\ ~sh.bad
                   /\ ~IsEmptyFrame(sh.rows)
                   /\ column_index - 1 >= Width(sh.rows)
                   /\ emitted' = Append(emitted,
                         Message("error", NoColumnMsg(file_path, sheet_name)))
                   /\ error_results' = Append(error_results,
                         ErrorRow(NoColumnMsg(file_path, sheet_name),
                                  selected_columns,
                                  SheetLocator(file_path, sheet_name)))
                   /\ sheet_pos' = sheet_pos + 1
                   /\ UNCHANGED <<df, idx, pc>>
                \/ /\ ~sh.bad
                   /\ ~IsEmptyFrame(sh.rows)
                   /\ column_index - 1 < Width(sh.rows)
                   /\ df' = sh.rows
                   /\ idx' = 0
                   /\ pc' = "row"
                   /\ UNCHANGED <<sheet_pos, emitted, error_results>>
          /\ UNCHANGED <<open_handles, i>>
    /\ UNCHANGED <<request, earlier, window, is_running, listing, entropy, draws, fs_temp,
                   fs_output,
                   temp_files_to_cleanup, excel_files, search_data, all_results,
                   locked_files, xls, sheets_to_process, cleanup_pos, cancel_seen>>

\* run, lines 294-324: one row of the sheet; the flag is read before each
\* row and a cleared flag leaves the row loop only
RowStep ==
    /\ pc = "row"
    /\ LET file_path == excel_files[i + 1]
           sheet_name == sheets_to_process[sheet_pos]
       IN
       \/ /\ idx >= Len(df)
          /\ sheet_pos' = sheet_pos + 1
          /\ pc' = "sheet"
          /\ UNCHANGED <<idx, all_results, io_log, cancel_seen>>
       \/ /\ idx < Len(df)
          /\ ~is_running
          /\ cancel_seen' = SeeCancel(i + 1)
          /\ sheet_pos' = sheet_pos + 1
          /\ pc' = "sheet"
          /\ UNCHANGED <<idx, all_results, io_log>>
       \/ /\ idx < Len(df)
          /\ is_running
          /\ LET cell_value == df[idx + 1][column_index] IN
             IF cell_value = NaN
             THEN UNCHANGED <<all_results, io_log>>
             ELSE /\ all_results' = all_results \o
                        ResultRows(FoundInCell(cell_value, search_data), df, idx,
                                   selected_columns, file_path, sheet_name)
                  /\ io_log' = Append(io_log, Io("match_row", file_path))
          /\ idx' = idx + 1
          /\ UNCHANGED <<sheet_pos, pc, cancel_seen>>
    /\ UNCHANGED <<request, earlier, window, is_running, listing, entropy, draws, fs_temp,
                   fs_output,
                   temp_files_to_cleanup, excel_files, search_data, error_results,
                   locked_files, i, xls, sheets_to_process, df, cleanup_pos,
                   open_handles, emitted>>

\* a report written whether or not there is a row
HasRows_always(combined_results) == TRUE

\* run, line 366: if combined_results
HasRows(combined_results) == combined_results # <<>>

\* the report with the error rows put first
CombinedResults_errorsFirst(results, errors) == errors \o results

\* the report built from the matches alone
CombinedResults_matchesOnly(results, errors) == results

\* run, line 364: the rows of the report, matches first
CombinedResults(results, errors) == results \o errors

\* run, lines 381-382: pd.ExcelWriter creates the file at output_file or
\* replaces the one that is there
Written(reports, report) ==
    Append(SelectSeq(reports,
                     LAMBDA w : abspath(w.path) # abspath(report.path)),
           report)

\* run, lines 364-414: the report is written when there is any row; exactly
\* one finished is emitted on each path
WriteStep ==
    /\ pc = "write"
    /\ LET combined_results == CombinedResults(all_results, error_results)
           counts == <<Len(all_results), Len(error_results)>>
           is_source == \E k \in 1..Len(excel_files) :
                           abspath(excel_files[k]) = abspath(output_file)
       IN
       \/ /\ HasRows(combined_results)
          /\ is_source
          /\ emitted' = Append(emitted, Finished(FALSE, "save_error", <<0, 0>>, <<>>))
          /\ UNCHANGED <<fs_output, io_log>>
       \/ /\ HasRows(combined_results)
          /\ ~is_source
          /\ \E outcome \in {"ok", "PermissionError", "Exception"} :
             /\ io_log' = Append(io_log, Io("write", output_file))
             /\ \/ /\ outcome = "ok"
                   /\ fs_output' = Written(fs_output,
                         [path |-> output_file,
                          headers |-> Headers(selected_columns),
                          rows |-> combined_results])
                   /\ emitted' = emitted
                         \o << Message("summary", <<>>),
                               Finished(TRUE, "completed", counts,
                                        JoinLines(locked_files)) >>
                \/ /\ outcome = "PermissionError"
                   /\ emitted' = Append(emitted,
                         Finished(FALSE, "output_locked", <<0, 0>>, <<>>))
                   /\ UNCHANGED fs_output
                \/ /\ outcome = "Exception"
                   /\ emitted' = Append(emitted,
                         Finished(FALSE, "save_error", <<0, 0>>, <<>>))
                   /\ UNCHANGED fs_output
       \/ /\ ~HasRows(combined_results)
          /\ emitted' = Append(emitted,
                Finished(TRUE, "no_matches", <<0, 0>>, JoinLines(locked_files)))
          /\ UNCHANGED <<fs_output, io_log>>
    /\ pc' = "cleanup"
    /\ UNCHANGED <<request, earlier, window, is_running, listing, entropy, draws, fs_temp,
                   temp_files_to_cleanup, scan, cleanup_pos, open_handles,
                   cancel_seen>>

\* run, lines 420-428, with safe_delete_temp_file (95-105): the finally block
\* deletes the scratch files one by one; a failed deletion emits a message
CleanupStep ==
    /\ pc = "cleanup"
    /\ \/ /\ cleanup_pos > Len(temp_files_to_cleanup)
          /\ open_handles' = Closed(open_handles, xls)
          /\ pc' = "done"
          /\ UNCHANGED <<fs_temp, emitted, io_log, cleanup_pos>>
       \/ /\ cleanup_pos <= Len(temp_files_to_cleanup)
          /\ LET temp_path == temp_files_to_cleanup[cleanup_pos] IN
             \/ /\ ~(temp_path # None /\ temp_path \in fs_temp
                      /\ InTempDirByPrefix(temp_path))
                /\ UNCHANGED <<fs_temp, emitted, io_log>>
             \/ /\ temp_path # None /\ temp_path \in fs_temp
                /\ InTempDirByPrefix(temp_path)
                /\ \/ /\ io_log' = Append(io_log, Io("unlink", temp_path))
                      /\ fs_temp' = fs_temp \ {temp_path}
                      /\ UNCHANGED emitted
                   \/ /\ io_log' = Append(io_log, Io("unlink_failed", temp_path))
                      /\ emitted' = Append(emitted, Message("delete_failed", <<>>))
                      /\ UNCHANGED fs_temp
          /\ cleanup_pos' = cleanup_pos + 1
          /\ UNCHANGED <<pc, open_handles>>
    /\ UNCHANGED <<request, earlier, window, is_running, listing, entropy, draws, fs_output,
                   temp_files_to_cleanup, scan, cancel_seen>>

\* stop, lines 472-476: the invoking context clears the flag at any time
\* while run can still read it (the flag is not read after the file loop)
Stop ==
    /\ pc \in {"validate", "discover", "terms", "file", "sheet", "row"}
    /\ is_running
    /\ is_running' = FALSE
    /\ UNCHANGED <<request, earlier, window, listing, entropy, draws, fs_temp, fs_output, pc,
                   temp_files_to_cleanup, scan, cleanup_pos, open_handles,
                   emitted, io_log, cancel_seen>>

\* the steps of the worker thread
WorkerNext ==
    \/ ValidateStep
    \/ DiscoverStep
    \/ TermsStep
    \/ FileLoopExit
    \/ FileStep
    \/ SheetStep
    \/ RowStep
    \/ WriteStep
    \/ CleanupStep

Next == NewWorker \/ WorkerNext \/ Stop

Spec == Init /\ [][Next]_vars

\* the worker thread is scheduled until run returns
FairSpec == Spec /\ WF_vars(WorkerNext)

\* ------------------------------------------------------------ properties
FinishedAt == {k \in 1..Len(emitted) : emitted[k].sig = "finished"}
FinishedCount == Cardinality(FinishedAt)
TheFinished == emitted[CHOOSE k \in FinishedAt : TRUE]

\* the positions of run after the loop over the files
AfterScan == {"write", "cleanup", "done"}

\* the loop over the files was left by the break of line 240
CutShortAtFile == \E k \in 1..Len(emitted) : emitted[k].kind = "cancelled"

\* C1: every execution of run emits finished exactly once: never a second
\* time, and eventually once (under the scheduling of the worker thread)
C1_FinishedExactlyOnce ==
    /\ [](FinishedCount <= 1)
    /\ (pc = "validate") ~> [](FinishedCount = 1)

\* a run that was cancelled, wrote its report and returned
C1_Witness ==
    /\ pc = "done"
    /\ FinishedCount = 1
    /\ cancel_seen.seen
    /\ fs_output # <<>>

\* a run ended by the unexpected exception of the variant loop
C1_WitnessCritical ==
    pc = "done" /\ FinishedCount = 1 /\ TheFinished.kind = "critical"

\* C2: finished is the last notification: nothing is emitted after it
C2_FinishedIsLast == \A k \in FinishedAt : k = Len(emitted)

\* C3: when the flag stops the scan before all files were processed, the
\* finished notification is neither the 'completed' nor the 'no matches' one
C3_CancelReported ==
    (CutShortAtFile /\ FinishedCount = 1)
        => TheFinished.kind \notin {"completed", "no_matches"}

\* the number of logged I/O operations of a kind
IoCount(log, ops) == Cardinality({k \in 1..Len(log) : log[k].op \in ops})

\* C4: once the worker has seen the flag cleared it does no further scanning:
\* no file opened, no sheet read, no row matched, no row appended
C4_NoWorkAfterCancel ==
    [][cancel_seen.seen =>
          /\ IoCount(io_log', {"open", "read_sheet", "match_row"})
                = IoCount(io_log, {"open", "read_sheet", "match_row"})
          /\ all_results' = all_results
          /\ error_results' = error_results]_vars

\* a sequence is the beginning of another
IsPrefix(a, b) == Len(a) <= Len(b) /\ SubSeq(b, 1, Len(a)) = a

\* the error rows carry a message that starts with its kind
ErrorKinds == {"no_sheets", "no_column", "sheet_error", "file_locked", "file_error"}
IsErrorRow(row) == row[1] # <<>> /\ row[1][1] \in ErrorKinds

\* the row comes from this file: its locator starts with the file's name
RowOfFile(row, file_path) == StartsWith(row[Len(row)], basename(file_path))

\* C5: a cancelled scan that writes its report writes every row accumulated
\* before the flag was seen, and no row of a file that had not been started
C5_PartialResultsKept ==
    \A w \in 1..Len(fs_output) :
        cancel_seen.seen =>
            LET rows == fs_output[w].rows
                matches == SelectSeq(rows, LAMBDA r : ~IsErrorRow(r))
                errors == SelectSeq(rows, IsErrorRow)
            IN /\ IsPrefix(cancel_seen.results, matches)
               /\ IsPrefix(cancel_seen.errors, errors)
               /\ \A k \in 1..Len(rows) :
                     \E f \in 1..cancel_seen.started :
                        RowOfFile(rows[k], excel_files[f])

\* a report written after the flag was seen with a match and an error row
\* already accumulated, and a file left unprocessed
C5_Witness ==
    /\ fs_output # <<>>
    /\ cancel_seen.seen
    /\ cancel_seen.results # <<>>
    /\ cancel_seen.errors # <<>>
    /\ cancel_seen.started < Len(excel_files)

\* the paths handed to read_excel_safely, in order
OpenedPaths ==
    LET opens == SelectSeq(io_log, LAMBDA e : e.op = "open")
    IN [k \in 1..Len(opens) |-> opens[k].path]

\* the loop over the files was entered
ScanEntered == search_data # <<>>

\* the environment makes every open of the file fail
OpenFails(file_path) ==
    \A stage \in {"copy", "parse"} :
        read_excel_safely(file_path, listing, {}, Nonce(0, 0), stage, TRUE).raised
            # "none"

\* the number of rows of a sequence that carry a locator
RowsAt(rows, locator) ==
    Cardinality({k \in 1..Len(rows) : rows[k][Len(rows[k])] = locator})

\* the number of rows of a sequence that come from a file
RowsOf(rows, file_path) ==
    Cardinality({k \in 1..Len(rows) : RowOfFile(rows[k], file_path)})

\* C6: a failure of a file or of a sheet leaves exactly one error row for it
\* and does not end the batch: the files are opened in discovery order, and
\* all of them unless the flag ends the loop over the files
C6_FailureNeverAborts ==
    ScanEntered =>
        /\ IsPrefix(OpenedPaths, excel_files)
        /\ Len(OpenedPaths) = (IF pc \in {"sheet", "row"} THEN i + 1 ELSE i)
        /\ (pc \in AfterScan /\ ~CutShortAtFile) => OpenedPaths = excel_files
        /\ \A k \in 1..i :
              LET f == excel_files[k]
                  sheets == ResolveSheets(sheets_mode, SheetNames(basename(f)))
              IN IF OpenFails(f) \/ sheets = <<>>
                 THEN /\ RowsAt(error_results, basename(f)) = 1
                      /\ RowsOf(error_results, f) = 1
                      /\ RowsOf(all_results, f) = 0
                 ELSE /\ RowsAt(error_results, basename(f)) = 0
                      /\ \A n \in 1..Len(sheets) :
                            SheetNamed(basename(f), sheets[n]).bad =>
                               /\ RowsAt(error_results, SheetLocator(f, sheets[n])) = 1
                               /\ RowsAt(all_results, SheetLocator(f, sheets[n])) = 0

\* a scan whose first file could not be opened and whose second file was
\* opened all the same, run to its end without the flag being cleared
C6_Witness ==
    /\ pc = "done"
    /\ is_running
    /\ Len(excel_files) = 2
    /\ OpenFails(excel_files[1])
    /\ OpenedPaths = excel_files
    /\ Len(error_results) = 2

\* a scan in which reading a sheet raised and a later file was opened
C6_WitnessSheet ==
    /\ pc = "done"
    /\ is_running
    /\ Len(excel_files) = 2
    /\ \E k \in 1..Len(error_results) : error_results[k][1][1] = "sheet_error"
    /\ OpenedPaths = excel_files

\* every open of the file fails with PermissionError
OpenDenied(file_path) ==
    \A stage \in {"copy", "parse"} :
        read_excel_safely(file_path, listing, {}, Nonce(0, 0), stage, TRUE).raised
            = "PermissionError"

\* the number of times a name stands in the list of locked files
LockedCount(name) ==
    Cardinality({k \in 1..Len(locked_files) : locked_files[k] = name})

\* C7, as stated: every file whose safe open fails is recorded in the
\* locked files and has one error row with its locator
C7_EveryFailureLocked ==
    ScanEntered =>
        \A k \in 1..i :
            OpenFails(excel_files[k]) =>
                /\ LockedCount(basename(excel_files[k])) = 1
                /\ RowsAt(error_results, basename(excel_files[k])) = 1

\* C7, amended: a file whose safe open fails with a permission error is
\* recorded once in the locked files and has one error row with its locator;
\* a file whose open fails otherwise has the error row only; no other file
\* is recorded, so every locked name has its error row
C7_LockedOnlyWhenDenied ==
    ScanEntered =>
        /\ \A k \in 1..i :
              LET f == excel_files[k] IN
              /\ OpenDenied(f) =>
                    /\ LockedCount(basename(f)) = 1
                    /\ RowsAt(error_results, basename(f)) = 1
              /\ (OpenFails(f) /\ ~OpenDenied(f)) =>
                    /\ LockedCount(basename(f)) = 0
                    /\ RowsAt(error_results, basename(f)) = 1
              /\ ~OpenFails(f) => LockedCount(basename(f)) = 0
        /\ \A n \in 1..Len(locked_files) :
              /\ RowsAt(error_results, locked_files[n]) = 1
              /\ \E k \in 1..i : basename(excel_files[k]) = locked_files[n]
        /\ Len(locked_files) <= Len(error_results)

\* a scan that met a locked file and then a corrupt one
C7_Witness ==
    /\ pc = "done"
    /\ Len(excel_files) = 2
    /\ OpenDenied(excel_files[1])
    /\ OpenFails(excel_files[2]) /\ ~OpenDenied(excel_files[2])
    /\ locked_files = <<basename(excel_files[1])>>
    /\ Len(error_results) = 2

\* the sheets to process of the k-th file
SheetsOf(k) ==
    ResolveSheets(sheets_mode, SheetNames(basename(excel_files[k])))

\* the sheets whose processing is over: <<k, n>> is the n-th sheet to process
\* of the k-th file, read without an exception
ProcessedSheets ==
    UNION { { <<k, n>> : n \in { m \in 1..Len(SheetsOf(k)) :
                /\ ~SheetNamed(basename(excel_files[k]), SheetsOf(k)[m]).bad
                /\ \/ k <= i
                   \/ k = i + 1 /\ pc \in {"sheet", "row"} /\ m < sheet_pos } } :
            k \in { j \in 1..Len(excel_files) :
                        ScanEntered /\ ~OpenFails(excel_files[j]) } }

\* the rows read from a processed sheet, and its locator
RowsOfSheet(kn) ==
    SheetNamed(basename(excel_files[kn[1]]), SheetsOf(kn[1])[kn[2]]).rows

LocatorOfSheet(kn) == SheetLocator(excel_files[kn[1]], SheetsOf(kn[1])[kn[2]])

\* C8, as stated: every processed sheet with fewer columns than the search
\* column index, a sheet without rows or columns included, has exactly one
\* error row and no result row
C8_ShortSheetOneErrorRow ==
    \A kn \in ProcessedSheets :
        Width(RowsOfSheet(kn)) < column_index =>
            /\ RowsAt(error_results, LocatorOfSheet(kn)) = 1
            /\ RowsAt(all_results, LocatorOfSheet(kn)) = 0

\* C8, amended: every processed sheet that has a row and a column but fewer
\* columns than the search column index has exactly one error row and no
\* result row; a sheet without rows or columns has no row of either kind;
\* the sheets and files after it are processed all the same
C8_ShortNonEmptySheetOneErrorRow ==
    /\ \A kn \in ProcessedSheets :
          LET rows == RowsOfSheet(kn)
              void == Len(rows) = 0 \/ Len(rows[1]) = 0
          IN /\ (~void /\ Len(rows[1]) < column_index) =>
                   /\ RowsAt(error_results, LocatorOfSheet(kn)) = 1
                   /\ RowsAt(all_results, LocatorOfSheet(kn)) = 0
             /\ void =>
                   /\ RowsAt(error_results, LocatorOfSheet(kn)) = 0
                   /\ RowsAt(all_results, LocatorOfSheet(kn)) = 0
    /\ (ScanEntered /\ pc \in AfterScan /\ ~CutShortAtFile) =>
          OpenedPaths = excel_files

\* a finished scan of two files: a sheet narrower than the search column
\* left its error row, an empty sheet left none, and the sheet and the file
\* after them were read
C8_Witness ==
    /\ pc = "done"
    /\ column_index = 2
    /\ Len(excel_files) = 2
    /\ \E kn \in ProcessedSheets :
          /\ kn[1] = 1
          /\ RowsOfSheet(kn) # <<>>
          /\ Width(RowsOfSheet(kn)) < column_index
          /\ RowsAt(error_results, LocatorOfSheet(kn)) = 1
    /\ \E kn \in ProcessedSheets :
          /\ kn[1] = 2
          /\ RowsOfSheet(kn) = <<>>
          /\ RowsAt(error_results, LocatorOfSheet(kn)) = 0
    /\ \E k \in 1..Len(error_results) : error_results[k][1][1] = "sheet_error"

\* the files discovery yields for the request
Discovered == get_excel_files_safely(directory, listing).files

\* the output path is one of the discovered source files
OutputIsSource ==
    \E k \in 1..Len(Discovered) : abspath(Discovered[k]) = abspath(output_file)

\* the output path lies in the source directory or is a discovered source file
DestinationUnsafe ==
    \/ dirname(abspath(output_file)) = abspath(directory)
    \/ OutputIsSource

\* C9: an output path in the source directory, or equal to a discovered
\* source file, ends the scan with a failure before any workbook is copied,
\* opened or read and without a report written; and no report is ever
\* written onto a discovered source file
C9_DestinationChecked ==
    /\ (pc \notin {"idle", "validate"} /\ DestinationUnsafe) =>
          /\ pc \in {"cleanup", "done"}
          /\ FinishedCount = 1
          /\ ~TheFinished.ok
          /\ TheFinished.kind = "path_error"
          /\ IoCount(io_log, {"open", "copy", "parse", "read_sheet",
                              "match_row", "write"}) = 0
          /\ fs_output = <<>>
          /\ excel_files = <<>>
    /\ \A w \in 1..Len(fs_output) :
          /\ \A k \in 1..Len(excel_files) :
                abspath(fs_output[w].path) # abspath(excel_files[k])
          /\ dirname(abspath(fs_output[w].path)) # abspath(directory)

\* a run refused because its output path names a discovered source file
C9_Witness ==
    /\ pc = "done"
    /\ OutputIsSource
    /\ FinishedCount = 1
    /\ TheFinished.kind = "path_error"
    /\ io_log = <<>>

\* a report written next to no source file
C9_WitnessWritten ==
    /\ fs_output # <<>>
    /\ Len(excel_files) = 2

\* every search value is empty after strip()
AllTermsBlank == \A k \in 1..Len(search_values) : Strip(search_values[k]) = <<>>

\* the destination check lets the request through
DestinationAccepted == ~validate_output_path(output_file, directory, listing).raised

\* C10, as stated: with every term empty after trimming the scan fails with
\* the no-valid-terms outcome whatever the directory holds, before any file
\* I/O on the source directory and without a report written
C10_NoTermsBeforeAnyIo ==
    (pc = "done" /\ AllTermsBlank /\ DestinationAccepted) =>
        /\ FinishedCount = 1
        /\ TheFinished.kind = "no_terms"
        /\ io_log = <<>>
        /\ fs_output = <<>>

\* C10, amended: with every term empty after trimming and an accepted
\* destination, the scan never enters the loop over the files: it fails with
\* the no-valid-terms outcome when discovery yields a file and with the
\* no-files outcome when it yields none; the source directory has been
\* listed by then, but no workbook is copied, opened or read and no report
\* is written
C10_NoTermsAfterDiscovery ==
    (AllTermsBlank /\ DestinationAccepted) =>
        /\ pc \in {"idle", "validate", "discover", "terms", "cleanup", "done"}
        /\ IoCount(io_log, {"open", "copy", "parse", "read_sheet",
                            "match_row", "write", "unlink",
                            "unlink_failed"}) = 0
        /\ fs_output = <<>>
        /\ pc \in {"cleanup", "done"} =>
              /\ FinishedCount = 1
              /\ ~TheFinished.ok
              /\ TheFinished.kind =
                    (IF Discovered = <<>> THEN "no_files" ELSE "no_terms")
              /\ DirExists(directory) => IoCount(io_log, {"listdir"}) >= 1

\* a scan of a directory with workbooks, all of whose terms were blank: it
\* ended with the no-valid-terms outcome after the directory was listed
C10_Witness ==
    /\ pc = "done"
    /\ search_values # <<>>
    /\ AllTermsBlank
    /\ Len(excel_files) = 2
    /\ TheFinished.kind = "no_terms"
    /\ IoCount(io_log, {"listdir"}) >= 1

\* run has made its discovery (line 194)
DiscoveryRan == \E k \in 1..Len(emitted) : emitted[k].kind = "searching"

\* C11: when discovery yields no file the scan ends with the failed
\* no-files outcome: no workbook is opened, no scratch copy made and no
\* report written
C11_NoFilesEndsScan ==
    (DiscoveryRan /\ excel_files = <<>>) =>
        /\ pc \in {"cleanup", "done"}
        /\ FinishedCount = 1
        /\ ~TheFinished.ok
        /\ TheFinished.kind = "no_files"
        /\ IoCount(io_log, {"open", "copy", "parse", "read_sheet",
                            "match_row", "write"}) = 0
        /\ fs_temp = {}
        /\ temp_files_to_cleanup = <<>>
        /\ fs_output = <<>>

\* a scan of an existing directory that holds entries but no workbook file
C11_Witness ==
    /\ pc = "done"
    /\ DiscoveryRan
    /\ DirExists(directory)
    /\ listing # <<>>
    /\ excel_files = <<>>
    /\ TheFinished.kind = "no_files"

\* a scan of a directory that does not exist
C11_WitnessMissing ==
    /\ pc = "done"
    /\ DiscoveryRan
    /\ ~DirExists(directory)
    /\ TheFinished.kind = "no_files"

\* run has left the loop over the files and passed lines 364-414
ReportStageDone == ScanEntered /\ pc \in {"cleanup", "done"}

\* C12: after the loop over the files, with no result row and no error row
\* nothing is written and the outcome is the successful no-matches one; with
\* a row of either kind the write of the report is attempted exactly once
C12_WriteIffRows ==
    /\ pc \notin {"cleanup", "done"} => IoCount(io_log, {"write"}) = 0
    /\ ReportStageDone =>
          IF all_results = <<>> /\ error_results = <<>>
          THEN /\ IoCount(io_log, {"write"}) = 0
               /\ fs_output = <<>>
               /\ FinishedCount = 1
               /\ TheFinished.ok
               /\ TheFinished.kind = "no_matches"
          ELSE /\ IoCount(io_log, {"write"}) = 1
               /\ Len(fs_output) <= 1
               /\ FinishedCount = 1
               /\ TheFinished.kind \in {"completed", "output_locked", "save_error"}
               /\ (TheFinished.kind = "completed") = (fs_output # <<>>)
               /\ TheFinished.ok = (fs_output # <<>>)

\* a scan that processed its files to the end and found nothing
C12_Witness ==
    /\ pc = "done"
    /\ ReportStageDone
    /\ is_running
    /\ OpenedPaths = excel_files
    /\ all_results = <<>>
    /\ error_results = <<>>
    /\ IoCount(io_log, {"match_row"}) > 0
    /\ TheFinished.kind = "no_matches"

\* a scan with error rows only, whose report was written
C12_WitnessWritten ==
    /\ pc = "done"
    /\ all_results = <<>>
    /\ error_results # <<>>
    /\ Len(fs_output) = 1

\* the place a written row comes from: the index of its file in discovery
\* order and of its sheet among the sheets to process (0 for a row about the
\* file as a whole)
FileIndexOf(row) ==
    CHOOSE k \in 1..Len(excel_files) : RowOfFile(row, excel_files[k])

SheetIndexOf(row) ==
    LET k == FileIndexOf(row)
        locator == row[Len(row)]
    IN IF locator = basename(excel_files[k]) THEN 0
       ELSE CHOOSE n \in 1..Len(SheetsOf(k)) :
               locator = SheetLocator(excel_files[k], SheetsOf(k)[n])

\* the row of the sheet a result row was made from (by its copied values)
\* and the position of its term among the search values kept
RowIndexOf(row) ==
    LET k == FileIndexOf(row)
        rows == SheetNamed(basename(excel_files[k]),
                           SheetsOf(k)[SheetIndexOf(row)]).rows
    IN CHOOSE n \in 0..(Len(rows) - 1) :
          \A c \in 1..Len(selected_columns) :
             row[c + 1] = RowValues(rows, n, selected_columns)[c]

TermIndexOf(row) ==
    CHOOSE t \in 1..Len(search_data) : search_data[t][1] = row[1]

ResultKey(row) ==
    <<FileIndexOf(row), SheetIndexOf(row), RowIndexOf(row), TermIndexOf(row)>>

ErrorKey(row) == <<FileIndexOf(row), SheetIndexOf(row)>>

\* lexicographic order of two tuples of numbers of the same length
RECURSIVE LexLess(_, _)
LexLess(a, b) ==
    /\ a # <<>>
    /\ \/ Head(a) < Head(b)
       \/ Head(a) = Head(b) /\ LexLess(Tail(a), Tail(b))

\* C13: in a written table every result row precedes every error row, the
\* result rows stand in the order file, sheet, row, term and the error rows
\* in the order file, sheet (the rows of a value listed twice are equal and
\* stand side by side)
C13_ReportOrder ==
    \A w \in 1..Len(fs_output) :
        LET rows == fs_output[w].rows IN
        \A a, b \in 1..Len(rows) :
            a < b =>
               /\ IsErrorRow(rows[a]) => IsErrorRow(rows[b])
               /\ (~IsErrorRow(rows[a]) /\ ~IsErrorRow(rows[b])) =>
                     \/ LexLess(ResultKey(rows[a]), ResultKey(rows[b]))
                     \/ rows[a] = rows[b]
               /\ (IsErrorRow(rows[a]) /\ IsErrorRow(rows[b])) =>
                     LexLess(ErrorKey(rows[a]), ErrorKey(rows[b]))

\* a written table with result rows of two files or sheets, two result rows
\* of one cell and two error rows
C13_Witness ==
    /\ fs_output # <<>>
    /\ LET rows == fs_output[1].rows IN
       /\ \E a, b \in 1..Len(rows) :
             /\ ~IsErrorRow(rows[a]) /\ ~IsErrorRow(rows[b])
             /\ ResultKey(rows[a])[3] = ResultKey(rows[b])[3]
             /\ ResultKey(rows[a])[2] = ResultKey(rows[b])[2]
             /\ ResultKey(rows[a])[4] < ResultKey(rows[b])[4]
       /\ \E a, b \in 1..Len(rows) :
             /\ ~IsErrorRow(rows[a]) /\ ~IsErrorRow(rows[b])
             /\ ResultKey(rows[a])[3] < ResultKey(rows[b])[3]
       /\ \E a, b \in 1..Len(rows) :
             /\ IsErrorRow(rows[a]) /\ IsErrorRow(rows[b])
             /\ ErrorKey(rows[a])[1] < ErrorKey(rows[b])[1]

\* the scratch copies made by successful opens of this scan that still exist
LiveScratchCopies == Range(temp_files_to_cleanup) \cap fs_temp

\* C14: the scratch copy of a file is deleted before the scan moves to the
\* next file, so none exists at a file boundary and at most one at any time
C14_ScratchReleasedPerFile ==
    /\ pc = "file" => LiveScratchCopies = {}
    /\ Cardinality(LiveScratchCopies) <= 1

\* no deletion of a scratch file has failed
NoUnlinkFailed == IoCount(io_log, {"unlink_failed"}) = 0

\* C15: when run has returned and no deletion has failed, no scratch copy
\* made by the scan remains: every copy made was deleted
C15_ScratchDeletedAtExit ==
    (pc = "done" /\ NoUnlinkFailed) =>
        /\ fs_temp = {}
        /\ IoCount(io_log, {"unlink"}) = IoCount(io_log, {"copy"})

\* a run that returned after a successful open and an open that failed after
\* its copy was made, with every deletion succeeding
C15_Witness ==
    /\ pc = "done"
    /\ NoUnlinkFailed
    /\ IoCount(io_log, {"copy"}) = 2
    /\ Len(temp_files_to_cleanup) = 1
    /\ fs_temp = {}

\* a cancelled run that returned with its scratch copy deleted
C15_WitnessCancelled ==
    /\ pc = "done"
    /\ NoUnlinkFailed
    /\ CutShortAtFile
    /\ IoCount(io_log, {"copy"}) = 1
    /\ fs_temp = {}

\* ------------------------------------------- the cleanup operation by itself
\* paths the cleanup operation can be called with: a scratch copy, a file of
\* that name in a directory whose name only begins like the scratch root, a
\* text file and a workbook that lie in the scratch root, a source workbook
TempSibling == <<<<"t", "m", "p", "f", "o", "o">>>>
P_scratch == join(TempDir, TempName(Nonce(0, 0)))
P_sibling == join(TempSibling, TempName(Nonce(0, 0)))
P_text == join(TempDir, N_txt)
P_foreign == join(TempDir, N_a)
P_source == join(DataDir, N_a)
CleanupPaths == {P_scratch, P_sibling, P_text, P_foreign, P_source}

\* the queues of paths handed to the cleanup, one path per file at most
CleanupQueues ==
    UNION { [1..n -> CleanupPaths] : n \in 1..MaxEntries }

\* os.path.commonpath([file_path_abs, temp_dir_abs]) == temp_dir_abs: the
\* components of the scratch root begin those of the path
InTempDirByPath(file_path) ==
    IsPrefix(abspath(TempDir), abspath(file_path))

\* is_safe_to_delete, with the regular files that exist
is_safe_to_delete(file_path, files) ==
    /\ file_path # None
    /\ file_path \in files
    /\ InTempDirByPath(file_path)
    /\ StartsWith(basename(file_path), TempPrefix)
    /\ HasExcelExt(basename(file_path))

\* the finally block of run entered with a queue of paths, all of which exist
CleanupInit ==
    /\ search_values = <<>>
    /\ directory = <<>>
    /\ column_index = 1
    /\ selected_columns = <<>>
    /\ output_file = <<>>
    /\ sheets_mode = [mode |-> "first", names |-> <<>>]
    /\ is_running = TRUE
    /\ listing = <<>>
    /\ fs_temp = CleanupPaths
    /\ fs_output = <<>>
    /\ entropy = 0
    /\ draws = 0
    /\ pc = "cleanup"
    /\ temp_files_to_cleanup \in CleanupQueues
    /\ excel_files = <<>>
    /\ search_data = <<>>
    /\ all_results = <<>>
    /\ error_results = <<>>
    /\ locked_files = <<>>
    /\ i = 0
    /\ xls = None
    /\ sheets_to_process = <<>>
    /\ sheet_pos = 1
    /\ df = <<>>
    /\ idx = 0
    /\ cleanup_pos = 1
    /\ open_handles = {}
    /\ emitted = <<>>
    /\ io_log = <<>>
    /\ cancel_seen = NotSeen
    /\ earlier = NoRun
    /\ window = NoWindow

CleanupSpec == CleanupInit /\ [][CleanupStep]_vars

IsScratchPath(path) ==
    /\ path # None
    /\ dirname(path) = TempDir
    /\ StartsWith(basename(path), TempPrefix)

\* C17: the parser is applied to scratch copies only, each made from a
\* discovered file just before; the handles held open are handles of scratch
\* copies; a file whose name starts with the lock marker is neither
\* discovered, copied nor opened
C17_ParserOnCopiesOnly ==
    /\ \A k \in 1..Len(io_log) :
          /\ io_log[k].op = "parse" =>
                /\ IsScratchPath(io_log[k].path)
                /\ io_log[k].path \notin Range(excel_files)
                /\ k > 1
                /\ io_log[k - 1].op = "copy"
                /\ io_log[k - 1].path \in Range(excel_files)
          /\ io_log[k].op \in {"open", "copy", "read_sheet", "match_row"} =>
                /\ io_log[k].path \in Range(excel_files)
                /\ ~StartsWith(basename(io_log[k].path), LockMarker)
    /\ \A h \in open_handles : IsScratchPath(h) /\ h \notin Range(excel_files)
    /\ pc \in {"sheet", "row"} => IsScratchPath(xls) /\ xls \in open_handles
    /\ \A k \in 1..Len(excel_files) :
          ~StartsWith(basename(excel_files[k]), LockMarker)

\* a scan of a directory holding a workbook and its lock-marker file: the
\* workbook is read through the handle of its scratch copy
C17_Witness ==
    /\ pc = "row"
    /\ \E k \in 1..Len(listing) : StartsWith(listing[k], LockMarker)
    /\ IoCount(io_log, {"parse"}) = 1
    /\ IsScratchPath(xls)
    /\ xls \in open_handles
    /\ IoCount(io_log, {"match_row"}) > 0

\* ------------------------------------------------- matching, cell by cell
\* the characters of the cells and terms enumerated exhaustively
MatchAlphabet == {"a", "A", "5", "0", ".", " ", ","}
MaxCellLen == 3
MaxTermLen == 2

Texts(alphabet, n) == UNION { [1..k -> alphabet] : k \in 1..n }

C_A12345 == <<"A", "1", "2", "3", "4", "5">>
C_5_0 == <<"5", ".", "0">>
C_list == <<"5", ",", "5", ".", "0", ",", "a", "b", "c">>
T_1234 == <<"1", "2", "3", "4">>

NamedCells ==
    { <<"A", "1", "2", "3", "4", "5">>,
      <<"5", ".", "0">>,
      <<"5", ",", "5", ".", "0", ",", "a", "b", "c">>,
      <<"i", "n", "f">>,
      <<"I", "N", "F">>,
      <<"n", "a", "n">>,
      <<"a", ";", "5">>,
      <<"a", "\n", "5">>,
      <<"5", "\t", "0">>,
      <<"(", "5", ")">>,
      <<"1", "2", "3", "4", "5">>,
      <<"1", "2", "3", "4">>,
      <<"5", ".", "5", "0">>,
      <<"0", "5">>,
      <<"a", "b", " ", "c">> }

NamedTerms ==
    { <<"1", "2", "3", "4">>,
      <<"5">>,
      <<"5", ".", "0">>,
      <<"i", "n", "f">>,
      <<"I", "n", "f">>,
      <<"n", "a", "n">>,
      <<"5", ".", "5", "0">>,
      <<"0", "5", ".", "0">>,
      <<"a", " ", " ", "A">>,
      <<" ", "5", " ">>,
      <<"a", "b", "c">>,
      <<"0", ".", "5">>,
      <<"a", " ", "a">>,
      <<"5", " ", "0">>,
      <<"5", ".", "5">>,
      <<".", "5", ".">>,
      <<"a", ".", "A">>,
      <<"(", "a", ")">>,
      <<"A", ",", "a">>,
      <<"5", ",", "0">>,
      <<"0", ".", "0">>,
      <<"0", "0">>,
      <<"5", ".", " ">>,
      <<" ", ".", "a">> }

\* str(cell_value) of the cells that are not NaN
MatchCells == Texts(MatchAlphabet, MaxCellLen) \cup NamedCells

\* the search values that are not empty after strip()
MatchTerms ==
    { t \in Texts(MatchAlphabet, MaxTermLen) \cup NamedTerms : Strip(t) # <<>> }

\* a worker with one search value, at one cell of the search column
MatchInit ==
    /\ search_values \in { <<t>> : t \in MatchTerms }
    /\ directory = DataDir
    /\ column_index = 1
    /\ selected_columns = <<>>
    /\ output_file = <<>>
    /\ sheets_mode = [mode |-> "first", names |-> <<>>]
    /\ is_running = TRUE
    /\ listing = <<N_a>>
    /\ fs_temp = {}
    /\ fs_output = <<>>
    /\ entropy = 0
    /\ draws = 0
    /\ pc = "match"
    /\ temp_files_to_cleanup = <<>>
    /\ excel_files = <<P_source>>
    /\ search_data = <<>>
    /\ all_results = <<>>
    /\ error_results = <<>>
    /\ locked_files = <<>>
    /\ i = 0
    /\ xls = None
    /\ sheets_to_process = <<>>
    /\ sheet_pos = 1
    /\ df \in { << <<c>> >> : c \in MatchCells }
    /\ idx = 0
    /\ cleanup_pos = 1
    /\ open_handles = {}
    /\ emitted = <<>>
    /\ io_log = <<>>
    /\ cancel_seen = NotSeen
    /\ earlier = NoRun
    /\ window = NoWindow

\* the variants of the search value are built (lines 202-225) and the cell is
\* matched against them (lines 303-310); the loop that builds them may raise
MatchCell ==
    /\ pc = "match"
    /\ IF VariantsRaise(search_values)
       THEN /\ pc' = "raised"
            /\ UNCHANGED <<search_data, all_results>>
       ELSE /\ search_data' = BuildSearchData(search_values)
            /\ all_results' = FoundInCell(df[idx + 1][column_index], search_data')
            /\ pc' = "matched"
    /\ UNCHANGED <<request, earlier, window, is_running, listing, entropy, draws, fs_temp,
                   fs_output, temp_files_to_cleanup, excel_files, error_results,
                   locked_files, i, xls, sheets_to_process, sheet_pos, df, idx,
                   cleanup_pos, open_handles, emitted, io_log, cancel_seen>>

MatchSpec == MatchInit /\ [][MatchCell]_vars

\* the characters that end a token: line breaks, commas, semicolons, tabs
\* and the other whitespace
Separators == {"\r", "\n", ",", ";", "\t", " "}

\* the tokens of a cell: its maximal runs of non-separator characters, each
\* stripped of leading and trailing punctuation
TokensOf(cell) ==
    { StripSet(SubSeq(cell, a, b), PunctChars) :
        <<a, b>> \in { sp \in (1..Len(cell)) \X (1..Len(cell)) :
                         /\ sp[1] <= sp[2]
                         /\ \A k \in sp[1]..sp[2] : cell[k] \notin Separators
                         /\ sp[1] = 1 \/ cell[sp[1] - 1] \in Separators
                         /\ sp[2] = Len(cell) \/ cell[sp[2] + 1] \in Separators } }

\* the integer and decimal textual forms of a term that float() accepts
NumberForms(term) ==
    CASE FloatKind(term) = "finite" -> {IntText(term), FloatText(term)}
      [] FloatKind(term) = "inf" -> {<<"i", "n", "f">>}
      [] FloatKind(term) = "nan" -> {<<"n", "a", "n">>}
      [] OTHER -> {}

\* the trimmed term, its lowercase, its uppercase, its space-removed form
\* and its numeric forms
TermForms(term) ==
    { Strip(term), Lower(Strip(term)), Upper(Strip(term)),
      SelectSeq(Strip(term), LAMBDA c : c # " ") } \cup NumberForms(term)

TokenMatches(cell, term) == TokensOf(cell) \cap TermForms(term) # {}

TheCell == df[idx + 1][column_index]
TheTerm == search_values[1]
CellMatched == pc = "matched" /\ all_results # <<>>

\* the three examples: a proper substring of a token does not match, "5.0"
\* matches "5", and the list cell matches both "5" and "5.0"
MatchExamples ==
    pc = "matched" =>
        /\ (TheCell = C_A12345 /\ TheTerm = T_1234) => ~CellMatched
        /\ (TheCell = C_5_0 /\ TheTerm = T_5) => CellMatched
        /\ (TheCell = C_list /\ TheTerm \in {T_5, C_5_0}) => CellMatched

\* C18: for every cell text and every term, the cell matches the term iff
\* some token of the cell equals the trimmed term, its lowercase, its
\* uppercase, its space-removed form or one of its numeric forms
C18_MatchIffToken ==
    /\ pc \in {"matched", "raised"} =>
            (CellMatched <=> TokenMatches(TheCell, TheTerm))
    /\ MatchExamples

\* C18 for the terms whose variants are built without an exception
C18_MatchIffTokenWhenBuilt ==
    /\ pc = "matched" => (CellMatched <=> TokenMatches(TheCell, TheTerm))
    /\ MatchExamples

\* the list cell has been matched against "5.0"
C18_Witness ==
    /\ pc = "matched"
    /\ TheCell = C_list
    /\ TheTerm = C_5_0
    /\ CellMatched
    /\ TokenMatches(TheCell, TheTerm)

\* the place in the emitted notifications where the k-th file was announced
ProcessingAt(k) ==
    LET at == {j \in 1..Len(emitted) : emitted[j].kind = "processing"}
    IN CHOOSE j \in at : Cardinality({m \in at : m <= j}) = k

\* the number of files whose pass through the loop body has ended
FilesProcessed == i

\* a progress notification of this value lies between the two places
ProgressBetween(value, from, to) ==
    \E j \in 1..Len(emitted) :
        /\ from < j
        /\ j < to
        /\ emitted[j] = Progress(value)

\* C19: when run has ended, for every k-th of the n files that finished
\* processing a progress notification of value floor(k/n*100) was emitted
\* after that file and before finished; so a scan that processed all its
\* files reported progress 100 before finished
C19_ProgressAfterEachFile ==
    (ScanEntered /\ pc = "done" /\ FinishedCount = 1) =>
        \A k \in 1..FilesProcessed :
            ProgressBetween(Percent(k, Len(excel_files)), ProcessingAt(k),
                            CHOOSE j \in FinishedAt : TRUE)

\* what run does: each file is announced and then the progress of the files
\* before it is reported, so the value 100 is never reported
C19_ProgressBeforeEachFile ==
    \A j \in 1..Len(emitted) :
        /\ emitted[j].sig = "progress" =>
              /\ emitted[j].value < 100
              /\ j > 1
              /\ emitted[j - 1].kind = "processing"
        /\ emitted[j].kind = "processing" =>
              /\ j < Len(emitted)
              /\ emitted[j + 1] =
                    Progress(Percent(Cardinality({m \in 1..j :
                                 emitted[m].kind = "processing"}) - 1,
                             Len(excel_files)))

\* ------------------------------------------------------ the same scan twice
\* the I/O of the run with the names of the scratch files left out
IoTrace ==
    [k \in 1..Len(io_log) |->
        [op |-> io_log[k].op,
         path |-> IF IsScratchPath(io_log[k].path) THEN TempDir
                  ELSE io_log[k].path]]

\* a second worker is made for the same request over the same directory
\* contents, after the first one returned without having been cancelled;
\* its random stream is drawn afresh
RunAgain ==
    /\ pc = "done"
    /\ ~earlier.ran
    /\ ~cancel_seen.seen
    /\ earlier' = [ran |-> TRUE, results |-> all_results,
                   errors |-> error_results, trace |-> IoTrace]
    /\ entropy' \in Entropies
    /\ is_running' = TRUE
    /\ draws' = 0
    /\ fs_temp' = {}
    /\ fs_output' = <<>>
    /\ pc' = "validate"
    /\ temp_files_to_cleanup' = <<>>
    /\ excel_files' = <<>>
    /\ search_data' = <<>>
    /\ all_results' = <<>>
    /\ error_results' = <<>>
    /\ locked_files' = <<>>
    /\ i' = 0
    /\ xls' = None
    /\ sheets_to_process' = <<>>
    /\ sheet_pos' = 1
    /\ df' = <<>>
    /\ idx' = 0
    /\ cleanup_pos' = 1
    /\ open_handles' = {}
    /\ emitted' = <<>>
    /\ io_log' = <<>>
    /\ cancel_seen' = NotSeen
    /\ UNCHANGED <<request, listing, window>>

TwinSpec == Init /\ [][Next \/ RunAgain]_vars

\* the text occurs in the sequence
Contains(text, part) ==
    \E k \in 0..(Len(text) - Len(part)) :
        SubSeq(text, k + 1, k + Len(part)) = part

\* the names drawn for scratch files in this run
ScratchNamesDrawn == { TempName(Nonce(entropy, n)) : n \in 0..(draws - 1) }

\* some field of some row carries the name of a scratch file of this run
RowNamesScratch ==
    \E rows \in {all_results, error_results} :
        \E k \in 1..Len(rows) : \E f \in 1..Len(rows[k]) :
            \E name \in ScratchNamesDrawn : Contains(rows[k][f], name)

\* both runs of the request have returned, neither was cancelled, and the
\* environment did the same to both
SameRunTwice ==
    /\ earlier.ran
    /\ pc = "done"
    /\ ~cancel_seen.seen
    /\ IoTrace = earlier.trace

\* C20: two uncancelled runs of the same request over the same directory
\* contents with the same outcomes of every open produce the same result
\* rows and the same error rows, and no row carries anything of the name of
\* a scratch file
C20_Deterministic ==
    /\ SameRunTwice =>
            /\ all_results = earlier.results
            /\ error_results = earlier.errors
    /\ ~RowNamesScratch

\* C20 for the directories in which no copy fails with an error of the
\* operating system other than a denied access
C20_DeterministicUnlessCopyError ==
    (\A k \in 1..Len(listing) : ~CopyFails(listing[k])) => C20_Deterministic

\* the same request has run twice over a.xls with different random streams
\* and found rows both times
C20_Witness ==
    /\ SameRunTwice
    /\ all_results # <<>>
    /\ \E k \in 1..Len(io_log) :
          io_log[k].op = "parse" /\ earlier.trace[k].op = "parse"
    /\ ScratchNamesDrawn # {}

\* the worker has read the flag as cleared, before a file or before a row
FlagSeenCleared == cancel_seen.seen

\* the 'cancelled by user' message lies before the finished notification
CancelledBeforeFinished ==
    \E j \in 1..Len(emitted) :
        /\ emitted[j].kind = "cancelled"
        /\ \A f \in FinishedAt : j < f

\* C21: whenever the cleared flag cut the scan short, before a file or in
\* the rows of any file, the 'cancelled by user' message is emitted before
\* finished
C21_CancelMessageEmitted ==
    (FlagSeenCleared /\ FinishedCount = 1) => CancelledBeforeFinished

\* what run does: the message is emitted when the flag is read as cleared
\* before a file; a flag first read as cleared in the rows of the last file
\* leaves no message
C21_CancelMessageAtFileBoundary ==
    /\ (FlagSeenCleared /\ FinishedCount = 1
            /\ cancel_seen.started < Len(excel_files))
         => CancelledBeforeFinished
    /\ (FinishedCount = 1 /\ ScanEntered /\ ~TheFinished.kind \in {"critical"}
            /\ FlagSeenCleared /\ cancel_seen.started = Len(excel_files))
         => ~CancelledBeforeFinished

\* the search values kept by run (not empty after strip()), trimmed, in
\* their order, a value listed twice standing twice
ValidTerms ==
    LET trimmed == [t \in 1..Len(search_values) |-> Strip(search_values[t])]
    IN SelectSeq(trimmed, LAMBDA t : t # <<>>)

\* the value, trimmed, has a variant that matches the cell
TermMatchesCell(term, cell) ==
    \E v \in Range(SearchVariants(term)) : is_exact_match(cell, v)

\* the values kept that match the cell, in their order
MatchingTerms(cell) == SelectSeq(ValidTerms, LAMBDA t : TermMatchesCell(t, cell))

\* the row loop moved on to the next row of the sheet
RowScanned == pc = "row" /\ idx' = idx + 1

\* C22: a scanned row whose search cell is not empty appends exactly one
\* result row per kept search value that matches the cell, in the order of
\* the values and however many variants match; an empty cell appends none;
\* each result row carries the value, one field per selected column (blank
\* beyond the sheet's width or for an empty cell) and the file and sheet
C22_OneRowPerMatchingTerm ==
    [][RowScanned =>
        LET cell == df[idx + 1][column_index]
            found == IF cell = NaN THEN <<>> ELSE MatchingTerms(cell)
            n == Len(all_results)
        IN /\ Len(all_results') = n + Len(found)
           /\ SubSeq(all_results', 1, n) = all_results
           /\ \A k \in 1..Len(found) :
                LET row == all_results'[n + k] IN
                /\ Len(row) = Len(selected_columns) + 2
                /\ row[1] = found[k]
                /\ row[Len(row)] =
                      SheetLocator(excel_files[i + 1], sheets_to_process[sheet_pos])
                /\ \A c \in 1..Len(selected_columns) :
                      row[c + 1] =
                        IF selected_columns[c] > Len(df[idx + 1])
                           \/ df[idx + 1][selected_columns[c]] = NaN
                        THEN Blank
                        ELSE df[idx + 1][selected_columns[c]]
    ]_vars

\* a value listed twice matched the cell of a row through two of its
\* variants and left two result rows of that row; the row with an empty
\* search cell left none
C22_Witness ==
    /\ search_values = <<T_A1, T_A1>>
    /\ column_index = 1
    /\ pc = "row"
    /\ sheet_pos = 1
    /\ idx = 2
    /\ Len(all_results) = 2
    /\ all_results[1] = all_results[2]
    /\ Cardinality({v \in 1..Len(search_data[1][2]) :
                       is_exact_match(df[1][1], search_data[1][2][v])}) > 1
    /\ df[2][1] = NaN

\* C23: the workbook handle of a file is closed on every path out of the
\* file's processing, before the next file is opened: at most one handle is
\* open at any time, and none at the top of the file loop, when the report
\* is written or when run has ended
C23_HandleClosedPerFile ==
    /\ Cardinality(open_handles) <= 1
    /\ pc \in {"file", "write", "cleanup", "done"} => open_handles = {}
    /\ pc \in {"sheet", "row"} => open_handles = {xls}

\* the second file is open after the first one was parsed, read and closed
C23_Witness ==
    /\ pc = "sheet"
    /\ i = 1
    /\ IoCount(io_log, {"parse"}) = 2
    /\ open_handles = {xls}
    /\ \E k \in 1..Len(io_log) :
          io_log[k].op = "parse" /\ io_log[k].path # xls

\* a scan cut short in the rows of a file has closed the file's workbook
C23_WitnessCancelled ==
    /\ pc = "done"
    /\ cancel_seen.seen
    /\ cancel_seen.started > 0
    /\ IoCount(io_log, {"parse"}) > 0
    /\ open_handles = {}

\* a matcher with the first test of is_exact_match only (line 446)
is_exact_match_primary(cell_str, search_variant) ==
    IF cell_str = <<>> \/ search_variant = <<>> THEN FALSE
    ELSE LET parts == Split(NormalizeCell(cell_str)) IN
         \E k \in 1..Len(parts) :
            LET part_clean == StripSet(parts[k], PunctChars) IN
            part_clean # <<>> /\ part_clean = search_variant

\* the texts the cell was matched against: the variants built for the
\* search value, and the value as typed
VariantsTried == Range(search_data[1][2]) \cup {TheTerm}

\* C24: for every cell text and every variant, is_exact_match gives what a
\* matcher with only the test 'token equals variant' gives
C24_SecondTestRedundant ==
    pc = "matched" =>
        \A v \in VariantsTried :
            is_exact_match(TheCell, v) = is_exact_match_primary(TheCell, v)

\* a search value with a space inside matched a cell through its variant
\* without the space, and its variant with the space matched nothing
C24_Witness ==
    /\ pc = "matched"
    /\ CellMatched
    /\ \E k \in 1..Len(Strip(TheTerm)) : Strip(TheTerm)[k] = " "
    /\ \E k \in 1..Len(TheCell) : TheCell[k] = " "
    /\ ~is_exact_match(TheCell, Strip(TheTerm))
    /\ is_exact_match_primary(TheCell, search_data[1][2][4])

\* C25: every row of the result sequence and of the error sequence, made on
\* whatever path, has len(selected_columns) + 2 fields, as many as the
\* header row, and so has every row of a written table
C25_RowWidth ==
    /\ \A rows \in {all_results, error_results} : \A k \in 1..Len(rows) :
          /\ Len(rows[k]) = Len(selected_columns) + 2
          /\ Len(rows[k]) = Len(Headers(selected_columns))
    /\ \A w \in 1..Len(fs_output) : \A k \in 1..Len(fs_output[w].rows) :
          Len(fs_output[w].rows[k]) = Len(fs_output[w].headers)

\* the head of the error row is a message of this kind
ErrorRowOfKind(row, kind) == row[1] # <<>> /\ row[1][1] = kind

\* a written table with a result row and the error row of a sheet without
\* the search column
C25_Witness ==
    /\ Len(fs_output) = 1
    /\ all_results # <<>>
    /\ \E k \in 1..Len(error_results) : ErrorRowOfKind(error_results[k], "no_column")
    /\ Len(fs_output[1].rows) = Len(all_results) + Len(error_results)

\* error rows of other paths: a sheet that cannot be read, and a file that
\* is locked, cannot be opened or has none of the sheets
C25_WitnessPaths ==
    /\ pc = "done"
    /\ \E k \in 1..Len(error_results) : ErrorRowOfKind(error_results[k], "sheet_error")
    /\ \E k \in 1..Len(error_results) :
          ErrorRowOfKind(error_results[k], "file_locked")
          \/ ErrorRowOfKind(error_results[k], "file_error")
          \/ ErrorRowOfKind(error_results[k], "no_sheets")

\* the text of the cell is exactly the trimmed search value
CellIsTerm == TheCell = Strip(TheTerm)

\* the trimmed value is one token that the matcher leaves whole: it has no
\* separator inside and no punctuation at either end
PlainTerm(term) ==
    LET t == Strip(term) IN
    /\ \A k \in 1..Len(t) : t[k] \notin Separators
    /\ t[1] \notin PunctChars
    /\ t[Len(t)] \notin PunctChars

\* C26: a cell whose text is exactly the trimmed search value matches that
\* value, whatever the value holds (a space inside, a comma or semicolon,
\* punctuation at its ends)
C26_MatchReflexive ==
    (pc \in {"matched", "raised"} /\ CellIsTerm) => CellMatched

\* what the matcher does: it is reflexive on the values that are one whole
\* token and whose variants are built
C26_MatchReflexiveOnPlainTerms ==
    (pc = "matched" /\ CellIsTerm /\ PlainTerm(TheTerm)) => CellMatched

\* on the other values whose variants are built it matches the value
\* itself only through a numeric variant
C26_NotReflexiveOtherwise ==
    (pc = "matched" /\ CellIsTerm /\ ~PlainTerm(TheTerm) /\ CellMatched)
        => FloatKind(TheTerm) = "finite"

\* ------------------------------------------------------------- the window
\* the most workers the window creates
MaxScans == 2

\* the worker thread is executing run: started, and run has not returned
ThreadLive == pc \notin {"idle", "done"}

\* a worker taken to have stopped as soon as it has emitted finished
isRunning_untilFinished == ThreadLive /\ FinishedCount = 0

\* start_search, line 720: self.search_worker and
\* self.search_worker.isRunning() (QThread.isRunning: true from start()
\* until run has returned)
isRunning == ThreadLive

\* get_search_values, lines 672-681: the lines typed, trimmed, without the
\* blank ones
get_search_values(typed) ==
    SelectSeq([t \in 1..Len(typed) |-> Strip(typed[t])], LAMBDA t : t # <<>>)

\* validate_input, lines 683-710, on the contents of the form
validate_input(typed, dir, out, column, columns) ==
    /\ get_search_values(typed) # <<>>
    /\ dir # <<>>
    /\ out # <<>>
    /\ column >= 1
    /\ columns # <<>>

\* start_search, lines 712-741, called by a click on the enabled button
\* with a form that validate_input accepts (the form is filled before the
\* first click and left as it is): with a worker running it only shows a
\* notice; otherwise it disables the button, creates a worker for the
\* request of the form and starts it
StartSearch ==
    /\ window.button
    /\ window.created < MaxScans
    /\ IF isRunning
       THEN /\ window' = [window EXCEPT !.refused = TRUE]
            /\ UNCHANGED <<request, is_running, listing, entropy, pc,
                           temp_files_to_cleanup, scan, cleanup_pos,
                           open_handles, emitted, io_log, cancel_seen>>
       ELSE /\ window' = [window EXCEPT !.button = FALSE, !.delivered = 0,
                                         !.created = @ + 1,
                                         !.refused = FALSE]
            /\ IF window.created = 0
               THEN /\ \E typed \in TermLists :
                         /\ search_values' = get_search_values(typed)
                         /\ directory' \in Directories
                         /\ column_index' \in ColumnIndexes
                         /\ selected_columns' \in SelectedColumns
                         /\ output_file' \in OutputFiles
                         /\ validate_input(typed, directory', output_file',
                                           column_index', selected_columns')
                    /\ sheets_mode' \in SheetModes
                    /\ listing' \in Listings
                    /\ entropy' \in Entropies
               ELSE UNCHANGED <<request, listing, entropy>>
            /\ is_running' = TRUE
            /\ pc' = "validate"
            /\ temp_files_to_cleanup' = <<>>
            /\ excel_files' = <<>>
            /\ search_data' = <<>>
            /\ all_results' = <<>>
            /\ error_results' = <<>>
            /\ locked_files' = <<>>
            /\ i' = 0
            /\ xls' = None
            /\ sheets_to_process' = <<>>
            /\ sheet_pos' = 1
            /\ df' = <<>>
            /\ idx' = 0
            /\ cleanup_pos' = 1
            /\ open_handles' = {}
            /\ emitted' = <<>>
            /\ io_log' = <<>>
            /\ cancel_seen' = NotSeen
    /\ UNCHANGED <<earlier, draws, fs_temp, fs_output>>

\* search_finished, lines 743-754, run by the window when a finished
\* notification of the worker is delivered: the button is enabled again
SearchFinished ==
    /\ window.delivered < FinishedCount
    /\ window' = [window EXCEPT !.button = TRUE, !.delivered = @ + 1]
    /\ UNCHANGED <<request, earlier, is_running, listing, entropy, draws,
                   fs_temp, fs_output, pc, temp_files_to_cleanup, scan,
                   cleanup_pos, open_handles, emitted, io_log, cancel_seen>>

\* the window and its worker thread (the window never calls stop)
WindowNext == StartSearch \/ SearchFinished \/ WorkerNext

WindowSpec == Init /\ [][WindowNext]_vars

\* C27: under every interleaving of start_search, the delivery of finished
\* and the steps of the worker thread, start_search creates and starts a
\* worker only when no worker thread is executing run
C27_OneScanAtATime ==
    [][window'.created > window.created => ~ThreadLive]_vars

\* a start was refused while the worker was still deleting its scratch
\* copies, after its finished notification had enabled the button again
C27_Witness ==
    /\ window.refused
    /\ window.created = 1
    /\ ThreadLive
    /\ FinishedCount = 1

\* a second worker was created, after run had returned
C27_WitnessSecond ==
    /\ window.created = 2
    /\ pc = "validate"

\* the button is enabled again and run has not returned
C27_WitnessRace ==
    /\ window.button
    /\ window.created = 1
    /\ pc = "cleanup"
    /\ cleanup_pos <= Len(temp_files_to_cleanup)
====
